---------------------------- MODULE Spec2Model ----------------------------
(***************************************************************************)
(* A model of src/location_extractor.py (class LocationExtractor and       *)
(* main): extraction of geotagged records from the photo library,          *)
(* distance-based deduplication, Street View panorama filtering,           *)
(* statistics, and the pipeline that main() builds from them.              *)
(*                                                                         *)
(* Numbers.  A coordinate is an integer n that denotes the IEEE-754 double *)
(* n / 10^6 degrees (microdegrees), except the two codes Tiny1 and Tiny2,  *)
(* which denote the doubles 1e-200 and 2e-200 degrees; the encoding is     *)
(* order preserving.  A distance is the integer ceil(d) of the double d,   *)
(* in metres, that _haversine_distance computes; thresholds are integral   *)
(* metres, for which d <= t iff ceil(d) <= t and d > t iff ceil(d) > t.    *)
(* A timestamp is an integer number of ticks (TicksPerSecond per second)   *)
(* of wall-clock time since 00:00:00 of day 0, with its UTC offset in      *)
(* hours; an isoformat() string is the pair of the two.                    *)
(***************************************************************************)
EXTENDS Integers, Sequences, FiniteSets, TLC

\* Python's None where a number (coordinate, timestamp, offset) is expected.
None == -999999999

\* The lists of at most n elements of S.
SeqsUpTo(S, n) == UNION {[1..k -> S] : k \in 0..n}

\* dict.get(key): the value under key, None when the key is absent.
Get(dict, key) == IF key \in DOMAIN dict THEN dict[key] ELSE None

\* The doubles 1e-200 and 2e-200 degrees.
Tiny1 == 1
Tiny2 == 2

\* The table's entry for a pair on which _haversine_distance raises
\* ValueError (math domain error): a is rounded above 1 for some antipodal
\* pairs, and math.sqrt(1 - a) is then taken of a negative number.
DomainError == -1

\* _haversine_distance evaluated in IEEE-754 doubles (tools/haversine_table.py
\* runs lines 97-110 of the source) on the coordinates the model uses,
\* rounded up to whole metres.
HaversineTable ==
    <<48856600, 2352200, 48856600, 2352200>> :> 0 @@ <<48856600, 2352200, 48856870, 2352200>> :> 31 @@
    <<48856600, 2352200, 10000000, 1>> :> 4326198 @@ <<48856600, 2352200, 10000000, 2>> :> 4326198 @@
    <<48856600, 2352200, 0, 180000000>> :> 14577793 @@ <<48856600, 2352200, 0, -180000000>> :> 14577793 @@
    <<48856600, 2352200, 90000000, 0>> :> 4574938 @@ <<48856600, 2352200, 90000000, 10000000>> :> 4574938 @@
    <<48856600, 2352200, 48856820, 2352200>> :> 25 @@ <<48856600, 2352200, 48857000, 2352200>> :> 45 @@
    <<48856600, 2352200, -12000000, 94420830>> :> 11159324 @@ <<48856600, 2352200, 12000000, -85579170>> :> 8855764 @@
    <<48856870, 2352200, 48856600, 2352200>> :> 31 @@ <<48856870, 2352200, 48856870, 2352200>> :> 0 @@
    <<48856870, 2352200, 10000000, 1>> :> 4326228 @@ <<48856870, 2352200, 10000000, 2>> :> 4326228 @@
    <<48856870, 2352200, 0, 180000000>> :> 14577763 @@ <<48856870, 2352200, 0, -180000000>> :> 14577763 @@
    <<48856870, 2352200, 90000000, 0>> :> 4574908 @@ <<48856870, 2352200, 90000000, 10000000>> :> 4574908 @@
    <<48856870, 2352200, 48856820, 2352200>> :> 6 @@ <<48856870, 2352200, 48857000, 2352200>> :> 15 @@
    <<48856870, 2352200, -12000000, 94420830>> :> 11159327 @@ <<48856870, 2352200, 12000000, -85579170>> :> 8855760 @@
    <<10000000, 1, 48856600, 2352200>> :> 4326198 @@ <<10000000, 1, 48856870, 2352200>> :> 4326228 @@
    <<10000000, 1, 10000000, 1>> :> 0 @@ <<10000000, 1, 10000000, 2>> :> 0 @@
    <<10000000, 1, 0, 180000000>> :> 18903138 @@ <<10000000, 1, 0, -180000000>> :> 18903138 @@
    <<10000000, 1, 90000000, 0>> :> 8895595 @@ <<10000000, 1, 90000000, 10000000>> :> 8895595 @@
    <<10000000, 1, 48856820, 2352200>> :> 4326223 @@ <<10000000, 1, 48857000, 2352200>> :> 4326243 @@
    <<10000000, 1, -12000000, 94420830>> :> 10712051 @@ <<10000000, 1, 12000000, -85579170>> :> 9303036 @@
    <<10000000, 2, 48856600, 2352200>> :> 4326198 @@ <<10000000, 2, 48856870, 2352200>> :> 4326228 @@
    <<10000000, 2, 10000000, 1>> :> 0 @@ <<10000000, 2, 10000000, 2>> :> 0 @@
    <<10000000, 2, 0, 180000000>> :> 18903138 @@ <<10000000, 2, 0, -180000000>> :> 18903138 @@
    <<10000000, 2, 90000000, 0>> :> 8895595 @@ <<10000000, 2, 90000000, 10000000>> :> 8895595 @@
    <<10000000, 2, 48856820, 2352200>> :> 4326223 @@ <<10000000, 2, 48857000, 2352200>> :> 4326243 @@
    <<10000000, 2, -12000000, 94420830>> :> 10712051 @@ <<10000000, 2, 12000000, -85579170>> :> 9303036 @@
    <<0, 180000000, 48856600, 2352200>> :> 14577793 @@ <<0, 180000000, 48856870, 2352200>> :> 14577763 @@
    <<0, 180000000, 10000000, 1>> :> 18903138 @@ <<0, 180000000, 10000000, 2>> :> 18903138 @@
    <<0, 180000000, 0, 180000000>> :> 0 @@ <<0, 180000000, 0, -180000000>> :> 1 @@
    <<0, 180000000, 90000000, 0>> :> 10007544 @@ <<0, 180000000, 90000000, 10000000>> :> 10007544 @@
    <<0, 180000000, 48856820, 2352200>> :> 14577768 @@ <<0, 180000000, 48857000, 2352200>> :> 14577748 @@
    <<0, 180000000, -12000000, 94420830>> :> 9526733 @@ <<0, 180000000, 12000000, -85579170>> :> 10488355 @@
    <<0, -180000000, 48856600, 2352200>> :> 14577793 @@ <<0, -180000000, 48856870, 2352200>> :> 14577763 @@
    <<0, -180000000, 10000000, 1>> :> 18903138 @@ <<0, -180000000, 10000000, 2>> :> 18903138 @@
    <<0, -180000000, 0, 180000000>> :> 1 @@ <<0, -180000000, 0, -180000000>> :> 0 @@
    <<0, -180000000, 90000000, 0>> :> 10007544 @@ <<0, -180000000, 90000000, 10000000>> :> 10007544 @@
    <<0, -180000000, 48856820, 2352200>> :> 14577768 @@ <<0, -180000000, 48857000, 2352200>> :> 14577748 @@
    <<0, -180000000, -12000000, 94420830>> :> 9526733 @@ <<0, -180000000, 12000000, -85579170>> :> 10488355 @@
    <<90000000, 0, 48856600, 2352200>> :> 4574938 @@ <<90000000, 0, 48856870, 2352200>> :> 4574908 @@
    <<90000000, 0, 10000000, 1>> :> 8895595 @@ <<90000000, 0, 10000000, 2>> :> 8895595 @@
    <<90000000, 0, 0, 180000000>> :> 10007544 @@ <<90000000, 0, 0, -180000000>> :> 10007544 @@
    <<90000000, 0, 90000000, 0>> :> 0 @@ <<90000000, 0, 90000000, 10000000>> :> 1 @@
    <<90000000, 0, 48856820, 2352200>> :> 4574913 @@ <<90000000, 0, 48857000, 2352200>> :> 4574893 @@
    <<90000000, 0, -12000000, 94420830>> :> 11341883 @@ <<90000000, 0, 12000000, -85579170>> :> 8673205 @@
    <<90000000, 10000000, 48856600, 2352200>> :> 4574938 @@ <<90000000, 10000000, 48856870, 2352200>> :> 4574908 @@
    <<90000000, 10000000, 10000000, 1>> :> 8895595 @@ <<90000000, 10000000, 10000000, 2>> :> 8895595 @@
    <<90000000, 10000000, 0, 180000000>> :> 10007544 @@ <<90000000, 10000000, 0, -180000000>> :> 10007544 @@
    <<90000000, 10000000, 90000000, 0>> :> 1 @@ <<90000000, 10000000, 90000000, 10000000>> :> 0 @@
    <<90000000, 10000000, 48856820, 2352200>> :> 4574913 @@ <<90000000, 10000000, 48857000, 2352200>> :> 4574893 @@
    <<90000000, 10000000, -12000000, 94420830>> :> 11341883 @@ <<90000000, 10000000, 12000000, -85579170>> :> 8673205 @@
    <<48856820, 2352200, 48856600, 2352200>> :> 25 @@ <<48856820, 2352200, 48856870, 2352200>> :> 6 @@
    <<48856820, 2352200, 10000000, 1>> :> 4326223 @@ <<48856820, 2352200, 10000000, 2>> :> 4326223 @@
    <<48856820, 2352200, 0, 180000000>> :> 14577768 @@ <<48856820, 2352200, 0, -180000000>> :> 14577768 @@
    <<48856820, 2352200, 90000000, 0>> :> 4574913 @@ <<48856820, 2352200, 90000000, 10000000>> :> 4574913 @@
    <<48856820, 2352200, 48856820, 2352200>> :> 0 @@ <<48856820, 2352200, 48857000, 2352200>> :> 21 @@
    <<48856820, 2352200, -12000000, 94420830>> :> 11159327 @@ <<48856820, 2352200, 12000000, -85579170>> :> 8855761 @@
    <<48857000, 2352200, 48856600, 2352200>> :> 45 @@ <<48857000, 2352200, 48856870, 2352200>> :> 15 @@
    <<48857000, 2352200, 10000000, 1>> :> 4326243 @@ <<48857000, 2352200, 10000000, 2>> :> 4326243 @@
    <<48857000, 2352200, 0, 180000000>> :> 14577748 @@ <<48857000, 2352200, 0, -180000000>> :> 14577748 @@
    <<48857000, 2352200, 90000000, 0>> :> 4574893 @@ <<48857000, 2352200, 90000000, 10000000>> :> 4574893 @@
    <<48857000, 2352200, 48856820, 2352200>> :> 21 @@ <<48857000, 2352200, 48857000, 2352200>> :> 0 @@
    <<48857000, 2352200, -12000000, 94420830>> :> 11159329 @@ <<48857000, 2352200, 12000000, -85579170>> :> 8855759 @@
    <<-12000000, 94420830, 48856600, 2352200>> :> 11159324 @@ <<-12000000, 94420830, 48856870, 2352200>> :> 11159327 @@
    <<-12000000, 94420830, 10000000, 1>> :> 10712051 @@ <<-12000000, 94420830, 10000000, 2>> :> 10712051 @@
    <<-12000000, 94420830, 0, 180000000>> :> 9526733 @@ <<-12000000, 94420830, 0, -180000000>> :> 9526733 @@
    <<-12000000, 94420830, 90000000, 0>> :> 11341883 @@ <<-12000000, 94420830, 90000000, 10000000>> :> 11341883 @@
    <<-12000000, 94420830, 48856820, 2352200>> :> 11159327 @@ <<-12000000, 94420830, 48857000, 2352200>> :> 11159329 @@
    <<-12000000, 94420830, -12000000, 94420830>> :> 0 @@ <<-12000000, 94420830, 12000000, -85579170>> :> -1 @@
    <<12000000, -85579170, 48856600, 2352200>> :> 8855764 @@ <<12000000, -85579170, 48856870, 2352200>> :> 8855760 @@
    <<12000000, -85579170, 10000000, 1>> :> 9303036 @@ <<12000000, -85579170, 10000000, 2>> :> 9303036 @@
    <<12000000, -85579170, 0, 180000000>> :> 10488355 @@ <<12000000, -85579170, 0, -180000000>> :> 10488355 @@
    <<12000000, -85579170, 90000000, 0>> :> 8673205 @@ <<12000000, -85579170, 90000000, 10000000>> :> 8673205 @@
    <<12000000, -85579170, 48856820, 2352200>> :> 8855761 @@ <<12000000, -85579170, 48857000, 2352200>> :> 8855759 @@
    <<12000000, -85579170, -12000000, 94420830>> :> -1 @@ <<12000000, -85579170, 12000000, -85579170>> :> 0

HaversineDistance(lat1, lon1, lat2, lon2) == HaversineTable[<<lat1, lon1, lat2, lon2>>]


VARIABLES
    pc,                     \* position in the running call
    raised,                 \* the exception that left the call, "None" if none
    all_photos,             \* self.photosdb.photos(): the library, a sequence of PhotoInfo
    start_date, end_date,   \* arguments of extract_locations
    start_datetime, end_datetime,
    photo_i,                \* number of photos the loop of extract_locations has taken
    photos_with_location, skipped_count, null_coord_count, date_filtered_count,
    args,                   \* main: the parsed command line
    locations,              \* the list handed to deduplicate_locations / filter_street_view_panos
    distance_meters, deduplicated, dedup_i,
    first_result,           \* <<r>> once a first deduplicate_locations call returned r and
                            \* its result was handed to a second call, <<>> before
    max_distance_m, filtered, filtered_count, pano_i,
    responses,              \* what the Street View service answered, one entry per record taken
    valid_locations,
    stats                   \* the dictionary get_statistics returned

extractVars == <<all_photos, start_date, end_date, start_datetime, end_datetime, photo_i,
                 photos_with_location, skipped_count, null_coord_count, date_filtered_count>>
dedupVars == <<distance_meters, deduplicated, dedup_i, first_result>>
panoVars == <<max_distance_m, filtered, filtered_count, pano_i, responses>>
statsVars == <<valid_locations, stats>>
vars == <<pc, raised, args, locations, extractVars, dedupVars, panoVars, statsVars>>

-----------------------------------------------------------------------------
(* Location dictionaries *)

\* A datetime: wall-clock ticks since 00:00:00 of day 0 and tzinfo, the UTC
\* offset in hours or None for a naive datetime.
Datetime(wall, tz) == [wall |-> wall, tz |-> tz]

\* None where a datetime is expected.
NoDatetime == Datetime(None, None)

\* isoformat() of a datetime: its wall-clock text and its UTC-offset suffix.
IsoFormat(dt) == [text |-> dt.wall, suffix |-> dt.tz]

\* The empty string stored under 'date' when the photo has no date.
EmptyString == [text |-> None, suffix |-> None]

\* The dictionary extract_locations builds for one photo.
LocationDict(uuid, lat, lon, date, is_video, is_favorite, description, region) ==
    [uuid |-> uuid, filename |-> "IMG.jpg", title |-> "IMG.jpg",
     description |-> description, latitude |-> lat, longitude |-> lon,
     date |-> date, is_video |-> is_video, is_favorite |-> is_favorite,
     region |-> region]

-----------------------------------------------------------------------------
(* Outcomes of calls *)

\* The outcome of a Python call: a returned value or a raised exception.
Return(v) == [tag |-> "return", value |-> v, exc |-> "None"]
Raise(e) == [tag |-> "raise", value |-> NoDatetime, exc |-> e]

-----------------------------------------------------------------------------
(* extract_locations *)

\* Most photos in the library.
MaxPhotos == 2

\* Datetimes are resolved to half seconds.
TicksPerSecond == 2
TicksPerDay == 86400 * TicksPerSecond

\* replace(hour=23, minute=59, second=59) of a midnight datetime.
EndOfDay(dt) == Datetime(dt.wall + (23 * 3600 + 59 * 60 + 59) * TicksPerSecond, dt.tz)

\* A date argument: None, '' or a string; a string is 'YYYY-MM-DD' of a day or malformed.
DateArg(kind, day) == [kind |-> kind, day |-> day]
NoDateArg == DateArg("None", None)
DateArgs == {NoDateArg, DateArg("empty", None), DateArg("malformed", None),
             DateArg("date", 1), DateArg("date", 2)}

\* Truth value of an Optional[str] argument: None and '' are falsy.
Truthy(date) == date.kind \notin {"None", "empty"}

\* datetime.strptime(date, '%Y-%m-%d')
Strptime(date) ==
    IF date.kind = "date" THEN Return(Datetime(date.day * TicksPerDay, None))
    ELSE Raise("ValueError")

\* normalize_datetime: tzinfo is replaced by None, the wall-clock time stays.
NormalizeDatetime(dt) ==
    IF dt = NoDatetime THEN NoDatetime
    ELSE IF dt.tz /= None THEN Datetime(dt.wall, None)
    ELSE dt

StartAfterEndMutant(start, end) == start.wall + TicksPerDay > end.wall
\* start_datetime > end_datetime
StartAfterEnd(start, end) == start.wall > end.wall

\* Lines 289-311: parse the date arguments, check the range.
ParseDates(start, end) ==
    LET s == IF Truthy(start) THEN Strptime(start) ELSE Return(NoDatetime)
        e == IF Truthy(end) THEN Strptime(end) ELSE Return(NoDatetime)
    IN
    IF s.tag = "raise" THEN Raise("ValueError: Invalid start_date format")
    ELSE IF e.tag = "raise" THEN Raise("ValueError: Invalid end_date format")
    ELSE LET start_dt == s.value
             end_dt == IF e.value = NoDatetime THEN NoDatetime ELSE EndOfDay(e.value)
         IN
         IF start_dt /= NoDatetime /\ end_dt /= NoDatetime /\ StartAfterEnd(start_dt, end_dt)
         THEN Raise("ValueError: start_date must be before or equal to end_date")
         ELSE Return(<<NormalizeDatetime(start_dt), NormalizeDatetime(end_dt)>>)

ExtractParseDates ==
    /\ pc = "extract_parse"
    /\ LET r == ParseDates(start_date, end_date) IN
       IF r.tag = "raise"
       THEN /\ raised' = r.exc
            /\ pc' = "raised"
            /\ UNCHANGED <<start_datetime, end_datetime>>
       ELSE /\ start_datetime' = r.value[1]
            /\ end_datetime' = r.value[2]
            /\ pc' = "extract_scan"
            /\ UNCHANGED raised
    /\ UNCHANGED <<args, locations, all_photos, start_date, end_date, photo_i,
                   photos_with_location, skipped_count, null_coord_count,
                   date_filtered_count, dedupVars, panoVars, statsVars>>

\* None and '' where a string is expected are both falsy.
NoneStr == "<None>"
Or(a, b) == IF a \in {NoneStr, ""} THEN b ELSE a

\* A place-name segment between commas: its text and whether blanks surround it.
Segment(text, padded) == [text |-> text, padded |-> padded]
\* str.strip()
Strip(segment) == segment.text

NoLocation == <<>>
NoExif == [none |-> TRUE]
NoPlace == [none |-> TRUE]
Camera(make, model) == [camera_make |-> make, camera_model |-> model]

\* A PhotoInfo of the library.
PhotoInfo(location, date, exif_info, place, description, ismovie, favorite) ==
    [location |-> location, date |-> date, exif_info |-> exif_info, place |-> place,
     original_filename |-> "IMG.jpg", title |-> NoneStr, description |-> description,
     ismovie |-> ismovie, favorite |-> favorite]

Paris == <<48856600, 2352200>>
ParisNorth == <<48856870, 2352200>>
France == [country |-> "France"]
IPhone == Camera("Apple", "iPhone 14")

\* Capture times around the days 1 and 2 that the date arguments name.
BeforeDay1 == Datetime(1 * TicksPerDay - 1, None)
BeforeDay1Utc == Datetime(1 * TicksPerDay - 1, 0)
StartOfDay1 == Datetime(1 * TicksPerDay, None)
NoonDay1 == Datetime(1 * TicksPerDay + 12 * 3600 * TicksPerSecond, 2)
\* 01:00:00+02:00 of day 1 and 23:00:00+00:00 of day 0 are the same instant;
\* 23:30:00+00:00 of day 0 is half an hour later.
Day1At0100Plus2 == Datetime(1 * TicksPerDay + 3600 * TicksPerSecond, 2)
Day0At2300Utc == Datetime(1 * TicksPerDay - 3600 * TicksPerSecond, 0)
Day0At2330Utc == Datetime(1 * TicksPerDay - 1800 * TicksPerSecond, 0)
Day2At235959 == Datetime(3 * TicksPerDay - TicksPerSecond, None)
Day2LastHalfSecond == Datetime(3 * TicksPerDay - 1, None)
StartOfDay3 == Datetime(3 * TicksPerDay, None)

\* The photos a library is made of.
Photos ==
    {PhotoInfo(NoLocation, NoonDay1, IPhone, France, "", FALSE, FALSE),
     PhotoInfo(<<None, None>>, NoonDay1, IPhone, NoPlace, "", FALSE, FALSE),
     PhotoInfo(<<91000000, 0>>, NoonDay1, IPhone, NoPlace, "", FALSE, FALSE),
     PhotoInfo(<<0, 181000000>>, NoonDay1, IPhone, NoPlace, "", FALSE, FALSE),
     PhotoInfo(<<0, 0>>, NoonDay1, IPhone, NoPlace, "", FALSE, FALSE),
     PhotoInfo(<<0, 0>>, NoDatetime, NoExif, NoPlace, "", FALSE, FALSE),
     PhotoInfo(Paris, NoDatetime, IPhone, France, "Eiffel", FALSE, TRUE),
     PhotoInfo(Paris, StartOfDay1, NoExif, France, "", FALSE, FALSE),
     PhotoInfo(Paris, BeforeDay1Utc, IPhone, [name |-> <<Segment("France", FALSE)>>],
               "", FALSE, FALSE),
     PhotoInfo(Paris, StartOfDay1, IPhone, NoPlace, "", TRUE, FALSE),
     PhotoInfo(ParisNorth, Day1At0100Plus2, IPhone,
               [country |-> "", name |-> <<Segment("Paris", FALSE), Segment("France", TRUE)>>],
               "", FALSE, FALSE),
     PhotoInfo(Paris, Day0At2300Utc, NoExif, France, "", FALSE, FALSE),
     PhotoInfo(ParisNorth, Day2At235959, Camera(NoneStr, "iPhone 14"),
               [name |-> <<Segment("Paris", FALSE), Segment("France", TRUE)>>],
               "", FALSE, FALSE),
     PhotoInfo(ParisNorth, Day2LastHalfSecond, IPhone, France, "", FALSE, FALSE),
     PhotoInfo(ParisNorth, StartOfDay3, IPhone,
               [name |-> <<Segment("Paris", FALSE), Segment("", TRUE)>>],
               "", FALSE, FALSE),
     PhotoInfo(ParisNorth, StartOfDay3, Camera("", NoneStr), France, "", FALSE, FALSE)}

\* all_photos = self.photosdb.photos(); photo.uuid is the position in the library.
ExtractScan ==
    /\ pc = "extract_scan"
    /\ \E library \in SeqsUpTo(Photos, MaxPhotos) :
        all_photos' = [i \in 1..Len(library) |->
                          [k \in DOMAIN library[i] \cup {"uuid"} |->
                              IF k = "uuid" THEN i ELSE library[i][k]]]
    /\ pc' = "extract_loop"
    /\ UNCHANGED <<raised, args, locations, start_date, end_date, start_datetime,
                   end_datetime, photo_i, photos_with_location, skipped_count,
                   null_coord_count, date_filtered_count, dedupVars, panoVars, statsVars>>

IsValidCameraMediaMutant(photo) ==
    /\ photo.exif_info /= NoExif
    /\ \A k \in {"camera_make", "camera_model"} :
          k \in DOMAIN photo.exif_info /\ photo.exif_info[k] \notin {NoneStr, ""}
\* _is_valid_camera_media
IsValidCameraMedia(photo) ==
    IF "exif_info" \in DOMAIN photo /\ photo.exif_info /= NoExif
    THEN LET camera_make == IF "camera_make" \in DOMAIN photo.exif_info
                            THEN photo.exif_info.camera_make ELSE NoneStr
             camera_model == IF "camera_model" \in DOMAIN photo.exif_info
                             THEN photo.exif_info.camera_model ELSE NoneStr
         IN ~(camera_make \in {NoneStr, ""} /\ camera_model \in {NoneStr, ""})
    ELSE FALSE

CoordinatesInRangeMutant(lat, lon) == -90000000 <= lat /\ -180000000 <= lon
\* (-90 <= lat <= 90) and (-180 <= lon <= 180)
CoordinatesInRange(lat, lon) ==
    (-90000000 <= lat /\ lat <= 90000000) /\ (-180000000 <= lon /\ lon <= 180000000)

\* Lines 343-354: the photo is skipped by the date filter.
DateFiltered(photo, start, end) ==
    IF photo.date /= NoDatetime
    THEN LET photo_datetime == NormalizeDatetime(photo.date) IN
         \/ start /= NoDatetime /\ photo_datetime.wall < start.wall
         \/ end /= NoDatetime /\ photo_datetime.wall > end.wall
    ELSE start /= NoDatetime \/ end /= NoDatetime

\* Lines 361-382: the region of a photo.
Region(photo) ==
    LET region ==
          IF "place" \in DOMAIN photo /\ photo.place /= NoPlace
          THEN IF "country" \in DOMAIN photo.place THEN photo.place.country
               ELSE IF "name" \in DOMAIN photo.place /\ Len(photo.place.name) > 1
               THEN Strip(photo.place.name[Len(photo.place.name)])
               ELSE NoneStr
          ELSE NoneStr
    IN Or(region, "Unknown")

\* Lines 384-395: photo_data.
PhotoData(photo) ==
    [uuid |-> photo.uuid,
     filename |-> Or(photo.original_filename, "Unknown"),
     title |-> Or(photo.title, Or(photo.original_filename, "Untitled")),
     description |-> Or(photo.description, ""),
     latitude |-> photo.location[1],
     longitude |-> photo.location[2],
     date |-> IF photo.date /= NoDatetime THEN IsoFormat(photo.date) ELSE EmptyString,
     is_video |-> photo.ismovie,
     is_favorite |-> photo.favorite,
     region |-> Region(photo)]

\* What one iteration of the loop does with a photo: nothing ("skip"), count
\* it under one of the three counters, or append its dictionary ("append").
Disposition(photo, start, end) ==
    IF photo.location = NoLocation THEN "skip"
    ELSE LET lat == photo.location[1]
             lon == photo.location[2]
         IN
         IF lat = None \/ lon = None THEN "null_coord"
         ELSE IF ~CoordinatesInRange(lat, lon) THEN "null_coord"
         ELSE IF lat /= 0 \/ lon /= 0
         THEN IF DateFiltered(photo, start, end) THEN "date_filtered"
              ELSE IF ~IsValidCameraMedia(photo) THEN "skipped"
              ELSE "append"
         ELSE "skip"

\* One iteration of the loop of extract_locations.
ExtractStep ==
    /\ pc = "extract_loop"
    /\ photo_i < Len(all_photos)
    /\ LET photo == all_photos[photo_i + 1]
           d == Disposition(photo, start_datetime, end_datetime)
       IN
       /\ null_coord_count' = IF d = "null_coord" THEN null_coord_count + 1
                              ELSE null_coord_count
       /\ date_filtered_count' = IF d = "date_filtered" THEN date_filtered_count + 1
                                 ELSE date_filtered_count
       /\ skipped_count' = IF d = "skipped" THEN skipped_count + 1 ELSE skipped_count
       /\ photos_with_location' = IF d = "append"
                                  THEN Append(photos_with_location, PhotoData(photo))
                                  ELSE photos_with_location
    /\ photo_i' = photo_i + 1
    /\ UNCHANGED <<pc, raised, args, locations, all_photos, start_date, end_date,
                   start_datetime, end_datetime, dedupVars, panoVars, statsVars>>

\* return photos_with_location: the list alone, the counters are only printed.
ExtractReturn ==
    /\ pc = "extract_loop"
    /\ photo_i = Len(all_photos)
    /\ pc' = "extract_return"
    /\ UNCHANGED <<raised, args, locations, extractVars, dedupVars, panoVars, statsVars>>

-----------------------------------------------------------------------------
(* _check_street_view_pano and filter_street_view_panos *)

\* Decoded JSON values; JSON null decodes to Python's None.
JNull == [type |-> "null"]
JStr(s) == [type |-> "string", s |-> s]
JNum(n) == [type |-> "number", n |-> n]
JArray == [type |-> "array"]
JObject(fields) == [type |-> "object", fields |-> fields]
EmptyFields == [k \in {} |-> JNull]

\* What one metadata request yields: urlopen raises or answers; the body
\* decodes as UTF-8 or not; the text parses as JSON or not.
HttpResponse(urlopen, body, data) == [urlopen |-> urlopen, body |-> body, data |-> data]

\* value.get(key, default) on a decoded JSON value: AttributeError unless it is a dict.
JsonGet(value, key, default) ==
    IF value.type /= "object" THEN Raise("AttributeError")
    ELSE IF key \in DOMAIN value.fields THEN Return(value.fields[key])
    ELSE Return(default)

\* The except clause of _check_street_view_pano.
CaughtExceptions == {"URLError", "HTTPError", "TimeoutError", "JSONDecodeError", "KeyError"}

\* The body of the try block for status == 'OK'.
PanoFromOk(lat, lon, data) ==
    LET pano_location == JsonGet(data, "location", JObject(EmptyFields)) IN
    IF pano_location.tag = "raise" THEN pano_location ELSE
    LET pano_lat == JsonGet(pano_location.value, "lat", JNull)
        pano_lon == JsonGet(pano_location.value, "lng", JNull)
        pano_id == JsonGet(data, "pano_id", JStr(""))
    IN
    IF pano_lat.tag = "raise" THEN pano_lat
    ELSE IF pano_lat.value /= JNull /\ pano_lon.value /= JNull
    THEN IF pano_lat.value.type /= "number" \/ pano_lon.value.type /= "number"
         THEN Raise("TypeError")
         ELSE LET distance_m == HaversineDistance(lat, lon, pano_lat.value.n,
                                                  pano_lon.value.n)
              IN
              IF distance_m = DomainError THEN Raise("ValueError")
              ELSE Return([pano_lat |-> pano_lat.value.n,
                           pano_lon |-> pano_lon.value.n,
                           pano_id |-> pano_id.value,
                           distance_m |-> distance_m])
    ELSE Return(JNull)

\* The try block.
PanoTry(lat, lon, response) ==
    IF response.urlopen /= "ok" THEN Raise(response.urlopen)
    ELSE IF response.body = "undecodable" THEN Raise("UnicodeDecodeError")
    ELSE IF response.body = "not_json" THEN Raise("JSONDecodeError")
    ELSE LET data == response.data
             status == JsonGet(data, "status", JStr("UNKNOWN_ERROR"))
         IN
         IF status.tag = "raise" THEN status
         ELSE IF status.value = JStr("OK") THEN PanoFromOk(lat, lon, data)
         ELSE Return(JNull)

CheckStreetViewPano(lat, lon, response) ==
    LET r == PanoTry(lat, lon, response) IN
    IF r.tag = "raise" /\ r.exc \in CaughtExceptions THEN Return(JNull) ELSE r

\* Longest list handed to filter_street_view_panos on its own.
MaxPanoLocations == 3

\* Coverage points the service reports: at 0 m, 25 m and 45 m from (48.8566, 2.3522).
PanoPoints == {<<48856600, 2352200>>, <<48856820, 2352200>>, <<48857000, 2352200>>}

\* A well-formed status OK answer for one coverage point.
OkResponse(point, pano_id) ==
    HttpResponse("ok", "json",
        JObject([status |-> JStr("OK"),
                 location |-> JObject([lat |-> JNum(point[1]), lng |-> JNum(point[2])]),
                 pano_id |-> JStr(pano_id)]))

\* Outcomes of one request to the metadata service, an untrusted collaborator.
Responses ==
    {HttpResponse(e, "none", JNull) : e \in {"URLError", "TimeoutError"}}
    \cup {HttpResponse("ok", b, JNull) : b \in {"undecodable", "not_json"}}
    \cup {HttpResponse("ok", "json", d) : d \in
            {JArray,
             JObject([status |-> JStr("ZERO_RESULTS")]),
             JObject([status |-> JStr("OK")]),
             JObject([status |-> JStr("OK"), location |-> JNull]),
             JObject([status |-> JStr("OK"),
                      location |-> JObject([lat |-> JStr("48.8566"), lng |-> JStr("2.3522")])]),
             JObject([status |-> JStr("OK"),
                      location |-> JObject([lat |-> JNum(48856600), lng |-> JNum(2352200)])])}}
    \cup {OkResponse(point, "CAoSLEFGMVFpcE1l") : point \in PanoPoints}

\* The log entry for a record that is dropped before any request is made.
NoRequest == HttpResponse("not_called", "none", JNull)

\* Lists handed to filter_street_view_panos on its own: two records 30 m apart,
\* one with latitude None and one without a 'longitude' key.
PanoLocations ==
    {LocationDict("A", 48856600, 2352200, EmptyString, FALSE, FALSE, "", "France"),
     LocationDict("B", 48856870, 2352200, EmptyString, TRUE, FALSE, "", "France"),
     LocationDict("N", None, 2352200, EmptyString, FALSE, FALSE, "", "Unknown"),
     [uuid |-> "K", latitude |-> 48856600]}

PanoMaxDistances == {0, 25, 40}

\* lat is None or lon is None
MissingCoordinate(lat, lon) == lat = None \/ lon = None

PanoTooFarMutant(distance_m, max) == distance_m >= max
\* distance_m > max_distance_m
PanoTooFar(distance_m, max) == distance_m > max

\* loc.copy() with the four pano keys set.
LocWithPano(loc, pano_info, distance_m) ==
    [k \in DOMAIN loc \cup {"pano_lat", "pano_lon", "pano_distance_m", "pano_id"} |->
        CASE k = "pano_lat" -> pano_info.pano_lat
          [] k = "pano_lon" -> pano_info.pano_lon
          [] k = "pano_distance_m" -> distance_m
          [] k = "pano_id" -> Get(pano_info, "pano_id")
          [] OTHER -> loc[k]]

AnnotateMutant(loc, pano_info, distance_m) ==
    <<LocWithPano(loc, pano_info, distance_m), LocWithPano(loc, pano_info, distance_m)>>
\* Lines 252-256: the record of the input and loc_with_pano, after the copy
\* and the four assignments, which go to the copy.
Annotate(loc, pano_info, distance_m) == <<loc, LocWithPano(loc, pano_info, distance_m)>>

KeepMutant(list, item) == <<item>> \o list
\* list.append(item)
Keep(list, item) == Append(list, item)

\* One iteration of the loop of filter_street_view_panos.
PanoStep ==
    /\ pc = "pano_loop"
    /\ pano_i < Len(locations)
    /\ LET loc == locations[pano_i + 1]
           lat == Get(loc, "latitude")
           lon == Get(loc, "longitude")
       IN
       IF MissingCoordinate(lat, lon)
       THEN /\ filtered_count' = filtered_count + 1
            /\ responses' = Append(responses, NoRequest)
            /\ pano_i' = pano_i + 1
            /\ UNCHANGED <<pc, raised, filtered, locations>>
       ELSE \E response \in Responses :
            LET pano_info == CheckStreetViewPano(lat, lon, response) IN
            /\ responses' = Append(responses, response)
            /\ IF pano_info.tag = "raise"
               THEN /\ raised' = pano_info.exc
                    /\ pc' = "raised"
                    /\ UNCHANGED <<filtered, filtered_count, pano_i, locations>>
               ELSE /\ pano_i' = pano_i + 1
                    /\ UNCHANGED <<pc, raised>>
                    /\ IF pano_info.value = JNull
                       THEN /\ filtered_count' = filtered_count + 1
                            /\ UNCHANGED <<filtered, locations>>
                       ELSE IF PanoTooFar(pano_info.value.distance_m, max_distance_m)
                       THEN /\ filtered_count' = filtered_count + 1
                            /\ UNCHANGED <<filtered, locations>>
                       ELSE LET annotated == Annotate(loc, pano_info.value,
                                                      pano_info.value.distance_m)
                            IN
                            /\ locations' = [locations EXCEPT ![pano_i + 1] = annotated[1]]
                            /\ filtered' = Keep(filtered, annotated[2])
                            /\ UNCHANGED filtered_count
    /\ UNCHANGED <<args, max_distance_m, extractVars, dedupVars, statsVars>>

\* return filtered, filtered_count
PanoReturn ==
    /\ pc = "pano_loop"
    /\ pano_i = Len(locations)
    /\ pc' = "pano_return"
    /\ UNCHANGED <<raised, args, locations, extractVars, dedupVars, panoVars, statsVars>>

-----------------------------------------------------------------------------
(* deduplicate_locations *)

\* Longest list handed to deduplicate_locations on its own.
MaxDedupLocations == 3

\* Records handed to deduplicate_locations on its own: two 30 m apart, a second
\* record at the coordinates of the first, two whose longitudes 1e-200 and
\* 2e-200 differ by less than double arithmetic resolves in the haversine
\* formula, two on the antimeridian at 180 and -180, two at the north pole,
\* two antipodes of each other for which the formula raises ValueError,
\* one with latitude None and one without a 'longitude' key.
DedupLocations ==
    {LocationDict("A", 48856600, 2352200, EmptyString, FALSE, FALSE, "", "France"),
     LocationDict("A2", 48856600, 2352200, EmptyString, FALSE, TRUE, "", "France"),
     LocationDict("B", 48856870, 2352200, EmptyString, TRUE, FALSE, "", "France"),
     LocationDict("D", 10000000, Tiny1, EmptyString, FALSE, FALSE, "", "Unknown"),
     LocationDict("E", 10000000, Tiny2, EmptyString, FALSE, FALSE, "", "Unknown"),
     LocationDict("F", 0, 180000000, EmptyString, FALSE, FALSE, "", "Unknown"),
     LocationDict("G", 0, -180000000, EmptyString, FALSE, FALSE, "", "Unknown"),
     LocationDict("H", 90000000, 0, EmptyString, FALSE, FALSE, "", "Unknown"),
     LocationDict("I", 90000000, 10000000, EmptyString, FALSE, FALSE, "", "Unknown"),
     LocationDict("P", -12000000, 94420830, EmptyString, FALSE, FALSE, "", "Unknown"),
     LocationDict("Q", 12000000, -85579170, EmptyString, FALSE, FALSE, "", "Unknown"),
     LocationDict("N", None, 2352200, EmptyString, FALSE, FALSE, "", "Unknown"),
     [uuid |-> "K", latitude |-> 48856600]}

DedupDistances == {0, 10, 200}

DuplicateWithinMutant(distance, threshold) == distance < threshold
\* distance <= distance_meters
DuplicateWithin(distance, threshold) == distance <= threshold

IsDuplicateMutant(lat, lon, existing, threshold) ==
    IF existing = <<>> THEN Return(FALSE)
    ELSE LET last == existing[Len(existing)]
             distance == HaversineDistance(lat, lon, last.latitude, last.longitude)
         IN
         IF distance = DomainError THEN Raise("ValueError")
         ELSE Return(DuplicateWithin(distance, threshold))
\* The inner loop: is_duplicate after comparing with the accepted records in
\* order, skipping those without coordinates and stopping at the first hit;
\* the ValueError of _haversine_distance leaves the loop.
RECURSIVE IsDuplicate(_, _, _, _)
IsDuplicate(lat, lon, existing, threshold) ==
    IF existing = <<>> THEN Return(FALSE)
    ELSE LET existing_lat == Get(Head(existing), "latitude")
             existing_lon == Get(Head(existing), "longitude")
         IN
         IF existing_lat = None \/ existing_lon = None
         THEN IsDuplicate(lat, lon, Tail(existing), threshold)
         ELSE LET distance == HaversineDistance(lat, lon, existing_lat, existing_lon) IN
              IF distance = DomainError THEN Raise("ValueError")
              ELSE IF DuplicateWithin(distance, threshold) THEN Return(TRUE)
              ELSE IsDuplicate(lat, lon, Tail(existing), threshold)

AcceptMutant(list, loc) == <<loc>> \o list
\* deduplicated.append(loc)
Accept(list, loc) == Append(list, loc)

\* One iteration of the outer loop of deduplicate_locations.
DedupStep ==
    /\ pc = "dedup_loop"
    /\ dedup_i < Len(locations)
    /\ LET loc == locations[dedup_i + 1]
           lat == Get(loc, "latitude")
           lon == Get(loc, "longitude")
       IN
       IF lat = None \/ lon = None
       THEN /\ dedup_i' = dedup_i + 1
            /\ UNCHANGED <<pc, raised, deduplicated>>
       ELSE LET is_duplicate == IsDuplicate(lat, lon, deduplicated, distance_meters) IN
            IF is_duplicate.tag = "raise"
            THEN /\ raised' = is_duplicate.exc
                 /\ pc' = "raised"
                 /\ UNCHANGED <<deduplicated, dedup_i>>
            ELSE /\ deduplicated' = IF is_duplicate.value THEN deduplicated
                                    ELSE Accept(deduplicated, loc)
                 /\ dedup_i' = dedup_i + 1
                 /\ UNCHANGED <<pc, raised>>
    /\ UNCHANGED <<args, locations, distance_meters, first_result,
                   extractVars, panoVars, statsVars>>

\* return deduplicated
DedupReturn ==
    /\ pc = "dedup_loop"
    /\ dedup_i = Len(locations)
    /\ pc' = "dedup_return"
    /\ UNCHANGED <<raised, args, locations, extractVars, dedupVars, panoVars, statsVars>>

\* deduplicate_locations(deduplicate_locations(S, t), t): the caller hands the
\* returned list to a second call with the same threshold.
DedupAgain ==
    /\ pc = "dedup_return"
    /\ first_result = <<>>
    /\ first_result' = <<deduplicated>>
    /\ locations' = deduplicated
    /\ deduplicated' = <<>>
    /\ dedup_i' = 0
    /\ pc' = "dedup_loop"
    /\ UNCHANGED <<raised, args, distance_meters, extractVars, panoVars, statsVars>>

-----------------------------------------------------------------------------
(* get_statistics *)

\* Most records in the list handed to get_statistics called on its own.
MaxStatsLocations == 3

\* The dictionary of counts that lines 572-579 build.
Counts(total, photos, videos, favorites, with_description, null_coordinates) ==
    [total |-> total, photos |-> photos, videos |-> videos, favorites |-> favorites,
     with_description |-> with_description, null_coordinates |-> null_coordinates]

\* Lines 542-550: the dictionary returned for an empty list, without 'date_range'.
EmptyStats == Counts(0, 0, 0, 0, 0, 0)

\* The value of stats while get_statistics has not returned.
NoStats == [none |-> TRUE]

\* Position of the UTC-offset suffix of an isoformat() string among the
\* suffixes that follow the same wall-clock text, in the order of str: no
\* suffix, then '+00:00', '+01:00', ..., then '-01:00', '-02:00', ...
SuffixRank(suffix) ==
    IF suffix = None THEN 0
    ELSE IF suffix >= 0 THEN 1 + suffix
    ELSE 100 - suffix

\* a <= b for two strings that isoformat() made: the strings are compared
\* character by character, so the wall-clock text decides and the suffix
\* breaks ties; the UTC offset is not applied.
IsoLessEq(a, b) ==
    \/ a.text < b.text
    \/ a.text = b.text /\ SuffixRank(a.suffix) <= SuffixRank(b.suffix)

\* list.sort() of a list of isoformat() strings.
RECURSIVE SortDates(_)
SortDates(dates) ==
    IF dates = <<>> THEN <<>>
    ELSE LET rest == SortDates(Tail(dates))
             x == Head(dates)
             before == SelectSeq(rest, LAMBDA d : ~IsoLessEq(x, d))
             after == SelectSeq(rest, LAMBDA d : IsoLessEq(x, d))
         IN before \o <<x>> \o after

\* Lines 554-568: the record goes into valid_locations.
IsValidLocation(loc) ==
    LET lat == Get(loc, "latitude")
        lon == Get(loc, "longitude")
    IN
    IF lat = None \/ lon = None THEN FALSE
    ELSE IF ~(-90000000 <= lat /\ lat <= 90000000) \/ ~(-180000000 <= lon /\ lon <= 180000000)
    THEN FALSE
    ELSE IF lat = 0 /\ lon = 0 THEN FALSE
    ELSE TRUE

\* Lines 570-589: the dictionary built from valid_locations.
BuildStats(all, valid) ==
    LET counts == Counts(Len(valid),
                         Len(SelectSeq(valid, LAMBDA loc : ~loc.is_video)),
                         Len(SelectSeq(valid, LAMBDA loc : loc.is_video)),
                         Len(SelectSeq(valid, LAMBDA loc : loc.is_favorite)),
                         Len(SelectSeq(valid, LAMBDA loc : loc.description /= "")),
                         Len(all) - Len(valid))
        dated == SelectSeq(valid, LAMBDA loc : loc.date /= EmptyString)
        dates == SortDates([j \in 1..Len(dated) |-> dated[j].date])
    IN
    IF dates /= <<>>
    THEN counts @@ [date_range |-> [earliest |-> dates[1], latest |-> dates[Len(dates)]]]
    ELSE counts

\* Lines 553-569: valid_locations after the loop.
ValidLocations(all) == SelectSeq(all, IsValidLocation)

\* get_statistics(locations): the dictionary for an empty list, otherwise the
\* one built from the records with valid coordinates.
GetStatistics ==
    /\ pc = "main_stats"
    /\ IF locations = <<>>
       THEN /\ stats' = EmptyStats
            /\ UNCHANGED valid_locations
       ELSE /\ valid_locations' = ValidLocations(locations)
            /\ stats' = BuildStats(locations, valid_locations')
    /\ pc' = "stats_return"
    /\ UNCHANGED <<raised, args, locations, extractVars, dedupVars, panoVars>>

-----------------------------------------------------------------------------
(* Values of the variables of calls that are not running *)

ExtractIdle ==
    /\ all_photos = <<>>
    /\ start_date = NoDateArg
    /\ end_date = NoDateArg
    /\ start_datetime = NoDatetime
    /\ end_datetime = NoDatetime
    /\ photo_i = 0
    /\ photos_with_location = <<>>
    /\ skipped_count = 0
    /\ null_coord_count = 0
    /\ date_filtered_count = 0

DedupIdle ==
    /\ distance_meters = 0
    /\ deduplicated = <<>>
    /\ dedup_i = 0
    /\ first_result = <<>>

PanoIdle ==
    /\ max_distance_m = 0
    /\ filtered = <<>>
    /\ filtered_count = 0
    /\ pano_i = 0
    /\ responses = <<>>

StatsIdle ==
    /\ valid_locations = <<>>
    /\ stats = NoStats

\* The parsed command line of main, and whether MAP_API_KEY is set in the
\* environment.  Either no date range or --start-from day 1 --end-on day 2.
MainArgs ==
    {a \in [start_from : {DateArg("empty", None), DateArg("date", 1)},
            end_on : {DateArg("empty", None), DateArg("date", 2)},
            dedupe : BOOLEAN, dedupe_distance : {500},
            filter_panos : BOOLEAN, pano_max_distance : {40},
            MAP_API_KEY : BOOLEAN] :
        (a.start_from.kind = "empty") = (a.end_on.kind = "empty")}

NoArgs == [start_from |-> DateArg("empty", None), end_on |-> DateArg("empty", None),
           dedupe |-> FALSE, dedupe_distance |-> 500,
           filter_panos |-> FALSE, pano_max_distance |-> 40, MAP_API_KEY |-> FALSE]

-----------------------------------------------------------------------------
(* extract_locations called on its own *)

ExtractInit ==
    /\ pc = "extract_parse"
    /\ raised = "None"
    /\ args = NoArgs
    /\ locations = <<>>
    /\ start_date \in DateArgs
    /\ end_date \in DateArgs
    /\ all_photos = <<>>
    /\ start_datetime = NoDatetime
    /\ end_datetime = NoDatetime
    /\ photo_i = 0
    /\ photos_with_location = <<>>
    /\ skipped_count = 0
    /\ null_coord_count = 0
    /\ date_filtered_count = 0
    /\ DedupIdle
    /\ PanoIdle
    /\ StatsIdle

ExtractNext == ExtractParseDates \/ ExtractScan \/ ExtractStep \/ ExtractReturn

ExtractSpec == ExtractInit /\ [][ExtractNext]_vars

-----------------------------------------------------------------------------
(* main: extract, deduplicate if asked, filter panoramas if asked, statistics *)

\* Lines 658-663: an empty --start-from / --end-on means None.
Init ==
    /\ pc = "extract_parse"
    /\ raised = "None"
    /\ args \in MainArgs
    /\ locations = <<>>
    /\ start_date = (IF args.start_from.kind /= "empty" THEN args.start_from ELSE NoDateArg)
    /\ end_date = (IF args.end_on.kind /= "empty" THEN args.end_on ELSE NoDateArg)
    /\ all_photos = <<>>
    /\ start_datetime = NoDatetime
    /\ end_datetime = NoDatetime
    /\ photo_i = 0
    /\ photos_with_location = <<>>
    /\ skipped_count = 0
    /\ null_coord_count = 0
    /\ date_filtered_count = 0
    /\ DedupIdle
    /\ PanoIdle
    /\ StatsIdle

\* Lines 663-673: locations = extract_locations(...); call deduplicate_locations if --dedupe.
MainDedupe ==
    /\ pc = "extract_return"
    /\ locations' = photos_with_location
    /\ IF args.dedupe
       THEN /\ distance_meters' = args.dedupe_distance
            /\ deduplicated' = <<>>
            /\ dedup_i' = 0
            /\ pc' = "dedup_loop"
       ELSE /\ pc' = "main_panos"
            /\ UNCHANGED <<distance_meters, deduplicated, dedup_i>>
    /\ UNCHANGED <<raised, args, first_result, extractVars, panoVars, statsVars>>

\* Line 673: locations = the list deduplicate_locations returned.
MainAfterDedupe ==
    /\ pc = "dedup_return"
    /\ locations' = deduplicated
    /\ pc' = "main_panos"
    /\ UNCHANGED <<raised, args, extractVars, dedupVars, panoVars, statsVars>>

\* Lines 679-688: call filter_street_view_panos if --filter-panos and the key is set.
MainPanos ==
    /\ pc = "main_panos"
    /\ IF args.filter_panos /\ args.MAP_API_KEY
       THEN /\ max_distance_m' = args.pano_max_distance
            /\ filtered' = <<>>
            /\ filtered_count' = 0
            /\ pano_i' = 0
            /\ responses' = <<>>
            /\ pc' = "pano_loop"
       ELSE /\ pc' = "main_stats"
            /\ UNCHANGED panoVars
    /\ UNCHANGED <<raised, args, locations, extractVars, dedupVars, statsVars>>

\* Line 684: locations, pano_filtered_count = the pair filter_street_view_panos returned.
MainAfterPanos ==
    /\ pc = "pano_return"
    /\ locations' = filtered
    /\ pc' = "main_stats"
    /\ UNCHANGED <<raised, args, extractVars, dedupVars, panoVars, statsVars>>

Next ==
    \/ ExtractParseDates \/ ExtractScan \/ ExtractStep \/ ExtractReturn
    \/ MainDedupe \/ DedupStep \/ DedupReturn \/ MainAfterDedupe
    \/ MainPanos \/ PanoStep \/ PanoReturn \/ MainAfterPanos
    \/ GetStatistics

Spec == Init /\ [][Next]_vars

-----------------------------------------------------------------------------
(* filter_street_view_panos called on its own *)

PanoInit ==
    /\ pc = "pano_loop"
    /\ raised = "None"
    /\ args = NoArgs
    /\ locations \in SeqsUpTo(PanoLocations, MaxPanoLocations)
    /\ max_distance_m \in PanoMaxDistances
    /\ filtered = <<>>
    /\ filtered_count = 0
    /\ pano_i = 0
    /\ responses = <<>>
    /\ ExtractIdle
    /\ DedupIdle
    /\ StatsIdle

PanoNext == PanoStep \/ PanoReturn

PanoSpec == PanoInit /\ [][PanoNext]_vars

-----------------------------------------------------------------------------
(* Properties of filter_street_view_panos *)

\* The answer is a lookup that succeeded: the request completed, the body is a
\* JSON object, and a status OK answer carries a location with numeric lat and lng.
WellFormedAnswer(response) ==
    /\ response.urlopen = "ok"
    /\ response.body = "json"
    /\ response.data.type = "object"
    /\ "status" \in DOMAIN response.data.fields
    /\ response.data.fields.status = JStr("OK") =>
         /\ "location" \in DOMAIN response.data.fields
         /\ response.data.fields.location.type = "object"
         /\ {"lat", "lng"} \subseteq DOMAIN response.data.fields.location.fields
         /\ response.data.fields.location.fields.lat.type = "number"
         /\ response.data.fields.location.fields.lng.type = "number"

\* The answer reports a coverage point.
ReportsCoverage(response) ==
    WellFormedAnswer(response) /\ response.data.fields.status = JStr("OK")

CoverageLat(response) == response.data.fields.location.fields.lat.n
CoverageLon(response) == response.data.fields.location.fields.lng.n
CoverageId(response) ==
    IF "pano_id" \in DOMAIN response.data.fields THEN response.data.fields.pano_id ELSE JStr("")

\* C1: whatever way a lookup fails (the request fails, or the answer is
\* undecodable, not JSON, or of the wrong shape), no error leaves
\* filter_street_view_panos and the record is not kept.
PanoFailClosed ==
    \A k \in 1..Len(responses) :
        (responses[k] /= NoRequest /\ ~WellFormedAnswer(responses[k])) =>
            /\ raised = "None"
            /\ Len(filtered) + filtered_count = pano_i

\* The record at position k of the input is to be kept: its lookup reported a
\* coverage point no farther than max_distance_m.
CoverageWithin(k) ==
    /\ responses[k] /= NoRequest
    /\ ReportsCoverage(responses[k])
    /\ HaversineDistance(locations[k].latitude, locations[k].longitude,
                         CoverageLat(responses[k]), CoverageLon(responses[k])) <= max_distance_m

\* The positions of the first n records that are to be kept, in input order.
RECURSIVE KeptPositions(_)
KeptPositions(n) ==
    IF n = 0 THEN <<>>
    ELSE IF CoverageWithin(n) THEN Append(KeptPositions(n - 1), n) ELSE KeptPositions(n - 1)

\* The dictionary without the pano keys.
CoreFields(loc) ==
    [k \in DOMAIN loc \ {"pano_lat", "pano_lon", "pano_distance_m", "pano_id"} |-> loc[k]]

\* C3: while no error has left the call, and so when it returns, the kept
\* list holds exactly the records whose lookup reported a coverage point at a
\* haversine distance <= max_distance_m, each annotated with that point's lat,
\* lon and id and with that distance.
PanoKeepsIffCoverageWithin ==
    raised = "None" =>
        LET kept == KeptPositions(pano_i) IN
        /\ Len(filtered) = Len(kept)
        /\ \A j \in 1..Len(kept) :
            LET loc == locations[kept[j]]
                response == responses[kept[j]]
            IN
            /\ CoreFields(filtered[j]) = loc
            /\ filtered[j].pano_lat = CoverageLat(response)
            /\ filtered[j].pano_lon = CoverageLon(response)
            /\ filtered[j].pano_id = CoverageId(response)
            /\ filtered[j].pano_distance_m =
                 HaversineDistance(loc.latitude, loc.longitude,
                                   CoverageLat(response), CoverageLon(response))

\* A returned call kept a record whose coverage point is exactly max_distance_m
\* away and dropped one whose coverage point is farther.
PanoBoundaryKept ==
    /\ pc = "pano_return"
    /\ \E j \in 1..Len(filtered) : filtered[j].pano_distance_m = max_distance_m
    /\ \E k \in 1..Len(responses) :
        /\ responses[k] /= NoRequest
        /\ ReportsCoverage(responses[k])
        /\ ~CoverageWithin(k)

\* s is a subsequence of t: s is t with some elements left out.
RECURSIVE IsSubsequence(_, _)
IsSubsequence(s, t) ==
    IF s = <<>> THEN TRUE
    ELSE IF t = <<>> THEN FALSE
    ELSE IF Head(s) = Head(t) THEN IsSubsequence(Tail(s), Tail(t))
    ELSE IsSubsequence(s, Tail(t))

CoreOf(list) == [j \in 1..Len(list) |-> CoreFields(list[j])]

\* C4: after every iteration the kept records are, in input order, records of
\* the input taken so far and kept + filtered_count is the number taken; so the
\* returned pair satisfies len(kept) + filtered_count = len(input).
PanoOrderAndCount ==
    /\ IsSubsequence(CoreOf(filtered), SubSeq(locations, 1, pano_i))
    /\ Len(filtered) + filtered_count = pano_i
    /\ pc = "pano_return" => Len(filtered) + filtered_count = Len(locations)

\* A returned call kept two different records and dropped one.
PanoKeptTwoDroppedOne ==
    /\ pc = "pano_return"
    /\ Len(filtered) = 2
    /\ filtered[1].uuid /= filtered[2].uuid
    /\ filtered_count >= 1

-----------------------------------------------------------------------------
(* deduplicate_locations called on its own, twice in a row *)

DedupInit ==
    /\ pc = "dedup_loop"
    /\ raised = "None"
    /\ args = NoArgs
    /\ locations \in SeqsUpTo(DedupLocations, MaxDedupLocations)
    /\ distance_meters \in DedupDistances
    /\ deduplicated = <<>>
    /\ dedup_i = 0
    /\ first_result = <<>>
    /\ ExtractIdle
    /\ PanoIdle
    /\ StatsIdle

DedupNext == DedupStep \/ DedupReturn \/ DedupAgain

DedupSpec == DedupInit /\ [][DedupNext]_vars

-----------------------------------------------------------------------------
(* Properties of deduplicate_locations *)

HasCoordinates(loc) == Get(loc, "latitude") /= None /\ Get(loc, "longitude") /= None

\* The haversine distance from the record at position k to the one at position j.
DistanceBetween(k, j) ==
    HaversineDistance(locations[k].latitude, locations[k].longitude,
                      locations[j].latitude, locations[j].longitude)

Select(positions) == [j \in 1..Len(positions) |-> locations[positions[j]]]

\* Greedy first-occurrence-wins clustering of the first n records: a record
\* is taken iff it has both coordinates and is farther than distance_meters
\* from every record taken before it.
RECURSIVE GreedyPositions(_)
GreedyPositions(n) ==
    IF n = 0 THEN <<>>
    ELSE LET before == GreedyPositions(n - 1) IN
         IF /\ HasCoordinates(locations[n])
            /\ \A j \in 1..Len(before) : DistanceBetween(n, before[j]) > distance_meters
         THEN Append(before, n)
         ELSE before

\* C5: after every iteration the output is the greedy first-occurrence-wins
\* clustering of the records taken so far; it is a subsequence of the input,
\* starts with the first record that has coordinates, and holds no record with
\* a missing coordinate.
DedupIsGreedyClustering ==
    /\ deduplicated = Select(GreedyPositions(dedup_i))
    /\ IsSubsequence(deduplicated, locations)
    /\ \A j \in 1..Len(deduplicated) : HasCoordinates(deduplicated[j])
    /\ \A k \in 1..dedup_i :
        (HasCoordinates(locations[k]) /\ \A j \in 1..(k - 1) : ~HasCoordinates(locations[j]))
            => (deduplicated /= <<>> /\ deduplicated[1] = locations[k])

\* A returned call dropped a record within the threshold of an accepted one
\* and a record without coordinates.
DedupDroppedNearAndMissing ==
    /\ pc = "dedup_return"
    /\ first_result = <<>>
    /\ distance_meters > 0
    /\ Len(deduplicated) = 1
    /\ \E k \in 1..Len(locations) : ~HasCoordinates(locations[k])
    /\ \E k \in 1..Len(locations) :
        /\ HasCoordinates(locations[k])
        /\ \E j \in 1..(k - 1) :
            /\ HasCoordinates(locations[j])
            /\ locations[j] /= locations[k]
            /\ DistanceBetween(k, j) <= distance_meters

\* C6: when the second of the two calls returns, its result is the list the
\* first call returned.
DedupIdempotent ==
    (pc = "dedup_return" /\ first_result /= <<>>) => deduplicated = first_result[1]

\* The second call returned, and the first one had returned two records.
DedupSecondCallReturned ==
    /\ pc = "dedup_return"
    /\ first_result /= <<>>
    /\ Len(first_result[1]) = 2
    /\ first_result[1][1] /= first_result[1][2]

\* Exact-duplicate removal of the first n records: a record is taken iff it has
\* both coordinates and no record taken before it has the same pair.
RECURSIVE ExactPositions(_)
ExactPositions(n) ==
    IF n = 0 THEN <<>>
    ELSE LET before == ExactPositions(n - 1) IN
         IF /\ HasCoordinates(locations[n])
            /\ \A j \in 1..Len(before) :
                  <<locations[n].latitude, locations[n].longitude>> /=
                  <<locations[before[j]].latitude, locations[before[j]].longitude>>
         THEN Append(before, n)
         ELSE before

\* C7 as claimed: with threshold 0 a record is dropped iff an accepted record
\* has exactly the same (latitude, longitude) pair.
ZeroThresholdDropsOnlyEqualPairs ==
    distance_meters = 0 => deduplicated = Select(ExactPositions(dedup_i))

\* Removal at computed distance zero: a record is taken iff it has both
\* coordinates and its computed distance to every record taken before is not 0.
RECURSIVE ZeroDistancePositions(_)
ZeroDistancePositions(n) ==
    IF n = 0 THEN <<>>
    ELSE LET before == ZeroDistancePositions(n - 1) IN
         IF /\ HasCoordinates(locations[n])
            /\ \A j \in 1..Len(before) : DistanceBetween(n, before[j]) /= 0
         THEN Append(before, n)
         ELSE before

\* C7 as amended: with threshold 0 a record is dropped iff its computed
\* haversine distance to an accepted record is 0; a record with the same pair
\* as an accepted one is therefore dropped, and two records whose longitudes
\* are 180 and -180 at the same latitude are both kept.
ZeroThresholdDropsZeroDistance ==
    distance_meters = 0 =>
        /\ deduplicated = Select(ZeroDistancePositions(dedup_i))
        /\ \A j, k \in 1..Len(deduplicated) :
            (j /= k) => <<deduplicated[j].latitude, deduplicated[j].longitude>> /=
                        <<deduplicated[k].latitude, deduplicated[k].longitude>>
        /\ \A j, k \in 1..dedup_i :
            (/\ HasCoordinates(locations[j]) /\ HasCoordinates(locations[k])
             /\ locations[j].latitude = locations[k].latitude
             /\ {locations[j].longitude, locations[k].longitude} = {180000000, -180000000})
            => (\E m \in 1..Len(deduplicated) : deduplicated[m] = locations[j])

\* A returned call with threshold 0 dropped a record with the pair of an
\* accepted one and kept both antimeridian records.
ZeroThresholdDroppedEqualPair ==
    /\ pc = "dedup_return"
    /\ first_result = <<>>
    /\ distance_meters = 0
    /\ Len(deduplicated) = 2
    /\ {deduplicated[1].longitude, deduplicated[2].longitude} = {180000000, -180000000}
    /\ Len(locations) = 3
    /\ \A k \in 1..3 : HasCoordinates(locations[k])

\* The distance the code computes between two accepted records.
AcceptedDistance(i, j) ==
    HaversineDistance(deduplicated[i].latitude, deduplicated[i].longitude,
                      deduplicated[j].latitude, deduplicated[j].longitude)

\* C16: after every iteration, and so at the return, any two different
\* records of the output are more than distance_meters apart by
\* _haversine_distance, in either order of its arguments.
DedupSeparation ==
    \A i, j \in 1..Len(deduplicated) :
        i /= j => /\ AcceptedDistance(i, j) /= DomainError
                  /\ AcceptedDistance(i, j) > distance_meters

\* In the middle of the loop, with a record still to take, the output holds
\* two records that are less than 200 m apart and more than the threshold.
DedupPartialOutputSeparated ==
    /\ pc = "dedup_loop"
    /\ first_result = <<>>
    /\ dedup_i < Len(locations)
    /\ distance_meters > 0
    /\ Len(deduplicated) = 2
    /\ AcceptedDistance(1, 2) <= 200

-----------------------------------------------------------------------------
(* Properties of extract_locations *)

\* CoordinateValidator: both coordinates present, in range, and not (0, 0).
ValidCoordinates(lat, lon) ==
    /\ lat /= None /\ lon /= None
    /\ -90000000 <= lat /\ lat <= 90000000
    /\ -180000000 <= lon /\ lon <= 180000000
    /\ <<lat, lon>> /= <<0, 0>>

HasLocation(photo) == photo.location /= NoLocation

PassesCoordinateCheck(photo) ==
    HasLocation(photo) /\ ValidCoordinates(photo.location[1], photo.location[2])

\* The classifier accepts the photo: a camera make or model that is not empty.
HasCameraInfo(photo) ==
    /\ photo.exif_info /= NoExif
    /\ \E k \in {"camera_make", "camera_model"} \cap DOMAIN photo.exif_info :
          photo.exif_info[k] \notin {NoneStr, ""}

Given(date) == date.kind \notin {"None", "empty"}

\* The timestamp lies in the inclusive range of calendar days: on or after
\* 00:00:00 of the start day and before the end of the end day.
InWholeDayRange(photo) ==
    IF ~Given(start_date) /\ ~Given(end_date) THEN TRUE
    ELSE /\ photo.date /= NoDatetime
         /\ Given(start_date) => start_date.day * TicksPerDay <= photo.date.wall
         /\ Given(end_date) => photo.date.wall < (end_date.day + 1) * TicksPerDay

EmittedUuids == {photos_with_location[j].uuid : j \in 1..Len(photos_with_location)}

InExtractLoop == pc \in {"extract_loop", "extract_return"}

\* C8: a photo that passes the coordinate and camera checks is emitted iff
\* its timestamp lies in the inclusive range of whole days (a photo without
\* timestamp: iff no bound is given).
DateFilterCoversWholeDays ==
    InExtractLoop =>
        EmittedUuids =
            {i \in 1..photo_i : /\ PassesCoordinateCheck(all_photos[i])
                                /\ HasCameraInfo(all_photos[i])
                                /\ InWholeDayRange(all_photos[i])}

MalformedArg(date) == date.kind = "malformed"
InvalidRange == start_date.kind = "date" /\ end_date.kind = "date" /\ start_date.day > end_date.day

\* C9: extract_locations raises iff a given date string does not parse or both
\* parse and start > end, each with its own error; it raises before the
\* library is read and with nothing extracted or counted; start = end is
\* accepted, and then every record returned was taken on that day.
ConfigErrorsAbortExtraction ==
    pc /= "extract_parse" =>
        /\ raised /= "None" <=> (MalformedArg(start_date) \/ MalformedArg(end_date) \/ InvalidRange)
        /\ MalformedArg(start_date) => raised = "ValueError: Invalid start_date format"
        /\ (~MalformedArg(start_date) /\ MalformedArg(end_date))
              => raised = "ValueError: Invalid end_date format"
        /\ InvalidRange => raised = "ValueError: start_date must be before or equal to end_date"
        /\ raised /= "None" =>
              /\ pc = "raised"
              /\ all_photos = <<>> /\ photo_i = 0 /\ photos_with_location = <<>>
              /\ skipped_count = 0 /\ null_coord_count = 0 /\ date_filtered_count = 0
        /\ (start_date.kind = "date" /\ end_date.kind = "date" /\ start_date.day = end_date.day)
              => /\ raised = "None"
                 /\ \A j \in 1..Len(photos_with_location) :
                       /\ start_date.day * TicksPerDay <= photos_with_location[j].date.text
                       /\ photos_with_location[j].date.text < (start_date.day + 1) * TicksPerDay

\* The call raised because start > end.
ExtractRaisedInvalidRange ==
    /\ pc = "raised"
    /\ InvalidRange
    /\ raised = "ValueError: start_date must be before or equal to end_date"

\* C10: every photo with a location that is not emitted is counted once, by
\* the first failing check: null_coord_count for an absent or invalid
\* coordinate pair (out of range, or (0, 0)), date_filtered_count for the date
\* filter, skipped_count for the camera classifier.
ExtractDropsAccounted ==
    InExtractLoop =>
        LET withLocation == {i \in 1..photo_i : HasLocation(all_photos[i])}
            badCoordinates == {i \in withLocation : ~PassesCoordinateCheck(all_photos[i])}
            outOfRange == {i \in withLocation \ badCoordinates :
                              DateFiltered(all_photos[i], start_datetime, end_datetime)}
            nonCamera == {i \in withLocation \ (badCoordinates \cup outOfRange) :
                              ~HasCameraInfo(all_photos[i])}
        IN
        /\ null_coord_count = Cardinality(badCoordinates)
        /\ date_filtered_count = Cardinality(outOfRange)
        /\ skipped_count = Cardinality(nonCamera)
        /\ Len(photos_with_location) + null_coord_count + date_filtered_count + skipped_count
              = Cardinality(withLocation)

\* The photo has an exif block in which both make and model are missing or empty.
EmptyCameraInfo(photo) ==
    /\ photo.exif_info /= NoExif
    /\ \A k \in {"camera_make", "camera_model"} \cap DOMAIN photo.exif_info :
          photo.exif_info[k] \in {NoneStr, ""}

\* C11: _is_valid_camera_media is true iff the photo carries a camera make or
\* a camera model that is not empty; it is false when the exif block is
\* absent and when make and model are both missing or empty; and no record
\* that extraction emits comes from a photo it is false for.
CameraMediaClassifier ==
    /\ \A i \in 1..Len(all_photos) :
          LET photo == all_photos[i] IN
          /\ IsValidCameraMedia(photo) <=> HasCameraInfo(photo)
          /\ photo.exif_info = NoExif => ~IsValidCameraMedia(photo)
          /\ EmptyCameraInfo(photo) => ~IsValidCameraMedia(photo)
    /\ \A uuid \in EmittedUuids : HasCameraInfo(all_photos[uuid])

\* The loop took a photo with valid coordinates, inside the date range, whose
\* make and model are both empty, and did not emit it; and it emitted a photo
\* that has a model but no make.
ExtractSkippedEmptyCameraInfo ==
    /\ pc = "extract_return"
    /\ \E i \in 1..photo_i :
          /\ PassesCoordinateCheck(all_photos[i])
          /\ ~DateFiltered(all_photos[i], start_datetime, end_datetime)
          /\ EmptyCameraInfo(all_photos[i])
          /\ i \notin EmittedUuids
    /\ \E i \in EmittedUuids : all_photos[i].exif_info.camera_make = NoneStr
    /\ skipped_count = 1

HasCountry(photo) ==
    /\ photo.place /= NoPlace
    /\ "country" \in DOMAIN photo.place
    /\ photo.place.country \notin {NoneStr, ""}

HasPlaceName(photo) == photo.place /= NoPlace /\ "name" \in DOMAIN photo.place

\* The region by the order of preference: the country if there is one that is
\* not empty, else the trimmed last comma-separated segment of the place name
\* if there is a place name, else "Unknown"; "Unknown" also for an empty segment.
PreferredRegion(photo) ==
    IF HasCountry(photo) THEN photo.place.country
    ELSE IF HasPlaceName(photo)
    THEN Or(Strip(photo.place.name[Len(photo.place.name)]), "Unknown")
    ELSE "Unknown"

\* C15: the region of every emitted record is the one the order of preference
\* gives for its photo, and it is never empty.
RegionFollowsPreference ==
    \A j \in 1..Len(photos_with_location) :
        LET loc == photos_with_location[j] IN
        /\ loc.region = PreferredRegion(all_photos[loc.uuid])
        /\ loc.region \notin {NoneStr, ""}

-----------------------------------------------------------------------------
(* Properties of main *)

ValidRecord(loc) == ValidCoordinates(Get(loc, "latitude"), Get(loc, "longitude"))

Extracted == {photos_with_location[j] : j \in 1..Len(photos_with_location)}

\* The record is one that extraction produced, with at most the pano keys added.
FromExtraction(loc) == CoreFields(loc) \in Extracted

\* C2: every record that extraction emits has the id and the coordinates of a
\* photo of the library; every record of the output of deduplicate_locations
\* and of filter_street_view_panos, and of the list main ends with, is a record
\* that extraction produced; and every record of every stage has valid coordinates.
PipelineOnlyFilters ==
    /\ \A j \in 1..Len(photos_with_location) :
          LET loc == photos_with_location[j] IN
          /\ ValidRecord(loc)
          /\ loc.uuid \in 1..photo_i
          /\ <<loc.latitude, loc.longitude>> = all_photos[loc.uuid].location
    /\ \A j \in 1..Len(deduplicated) :
          deduplicated[j] \in Extracted /\ ValidRecord(deduplicated[j])
    /\ \A j \in 1..Len(filtered) :
          FromExtraction(filtered[j]) /\ ValidRecord(filtered[j])
    /\ \A j \in 1..Len(locations) :
          FromExtraction(locations[j]) /\ ValidRecord(locations[j])

\* main went through all three stages: extraction emitted two records and
\* dropped none of the library, deduplication dropped one, the panorama filter
\* kept the other.
PipelineRanAllStages ==
    /\ pc = "main_stats"
    /\ args.dedupe /\ args.filter_panos /\ args.MAP_API_KEY
    /\ Len(photos_with_location) = 2
    /\ Len(deduplicated) = 1
    /\ Len(locations) = 1
    /\ "pano_lat" \in DOMAIN locations[1]

CoreKeys == {"uuid", "filename", "title", "description", "latitude", "longitude",
             "date", "is_video", "is_favorite", "region"}
PanoKeys == {"pano_lat", "pano_lon", "pano_distance_m", "pano_id"}

NotAnnotated(list) == \A j \in 1..Len(list) : DOMAIN list[j] \cap PanoKeys = {}

\* The list main hands to filter_street_view_panos, as it was when handed over.
PanoInput == IF args.dedupe THEN deduplicated ELSE photos_with_location

PanoFilterRan == args.filter_panos /\ args.MAP_API_KEY

\* C13: deduplicate_locations and filter_street_view_panos leave the list they
\* are given, and every record in it, as it was when they were called; a
\* record the panorama filter keeps is a new dictionary that agrees with a
\* record of the input on the ten core fields and has the four pano keys in
\* addition; a record of the extracted list, of the deduplicated list and of
\* a final list that did not go through the panorama filter has no pano key.
StagesDoNotMutate ==
    /\ pc \in {"dedup_loop", "dedup_return"} => locations = photos_with_location
    /\ pc \in {"pano_loop", "pano_return", "raised"} => locations = PanoInput
    /\ \A j \in 1..Len(filtered) :
          /\ DOMAIN filtered[j] = CoreKeys \cup PanoKeys
          /\ \E k \in 1..pano_i : \A key \in CoreKeys : filtered[j][key] = PanoInput[k][key]
    /\ \A j \in 1..Len(deduplicated) :
          \E k \in 1..dedup_i : deduplicated[j] = photos_with_location[k]
    /\ NotAnnotated(photos_with_location)
    /\ NotAnnotated(deduplicated)
    /\ ~PanoFilterRan => NotAnnotated(locations)

\* Both stages returned: deduplication dropped one of two extracted records
\* and the panorama filter kept the other with its annotation, while the
\* list each stage was given is still what it was.
StagesReturnedInputsIntact ==
    /\ pc = "pano_return"
    /\ args.dedupe
    /\ Len(photos_with_location) = 2
    /\ Len(deduplicated) = 1
    /\ Len(filtered) = 1
    /\ PanoKeys \subseteq DOMAIN filtered[1]
    /\ locations = deduplicated

-----------------------------------------------------------------------------
(* get_statistics called on its own *)

\* The records a list handed to get_statistics is made of: with and without
\* valid coordinates, photos and videos, with and without date.
StatsLocations ==
    {LocationDict(1, 48856600, 2352200, IsoFormat(Day1At0100Plus2), FALSE, TRUE, "Eiffel", "France"),
     LocationDict(2, 48856600, 2352200, IsoFormat(Day0At2300Utc), FALSE, FALSE, "", "France"),
     LocationDict(3, 48856870, 2352200, IsoFormat(Day0At2330Utc), TRUE, FALSE, "", "Unknown"),
     LocationDict(4, 48856870, 2352200, IsoFormat(StartOfDay3), TRUE, TRUE, "", "France"),
     LocationDict(5, 48856600, 2352200, EmptyString, FALSE, FALSE, "", "Unknown"),
     LocationDict(6, None, 2352200, IsoFormat(BeforeDay1), FALSE, TRUE, "x", "France"),
     LocationDict(7, 0, 0, IsoFormat(BeforeDay1), TRUE, FALSE, "", "Unknown"),
     LocationDict(8, 91000000, 0, IsoFormat(StartOfDay3), FALSE, TRUE, "x", "Unknown"),
     [k \in {"uuid", "latitude", "date", "is_video", "is_favorite", "description"} |->
         LocationDict(9, 0, 181000000, IsoFormat(StartOfDay3), TRUE, TRUE, "x", "Unknown")[k]]}

\* The caller is at the point where main calls get_statistics (line 696).
StatsInit ==
    /\ pc = "main_stats"
    /\ raised = "None"
    /\ args = NoArgs
    /\ locations \in SeqsUpTo(StatsLocations, MaxStatsLocations)
    /\ ExtractIdle
    /\ DedupIdle
    /\ PanoIdle
    /\ StatsIdle

StatsNext == GetStatistics

StatsSpec == StatsInit /\ [][StatsNext]_vars

-----------------------------------------------------------------------------
(* Properties of timestamps *)

\* The instant a datetime denotes, in ticks of UTC; a naive one is read as UTC.
Instant(wall, tz) == wall - (IF tz = None THEN 0 ELSE tz) * 3600 * TicksPerSecond

\* Two timezone-aware datetimes with different UTC offsets denote one instant.
SameInstant(a, b) ==
    /\ a /= NoDatetime /\ b /= NoDatetime
    /\ a.tz /= None /\ b.tz /= None /\ a.tz /= b.tz
    /\ Instant(a.wall, a.tz) = Instant(b.wall, b.tz)

IsoInstant(date) == Instant(date.text, date.suffix)

\* The dates of the records get_statistics counts.
CountedDates ==
    {valid_locations[j].date : j \in 1..Len(valid_locations)} \ {EmptyString}

\* C12: timestamps are compared as instants of one reference frame: two photos
\* whose timestamps denote the same instant with different UTC offsets get the
\* same decision of the date filter, and the earliest (latest) date that
\* get_statistics reports is that of an instant no later (no earlier) than
\* that of every counted record.
TimestampsComparedAsInstants ==
    /\ \A i, j \in 1..Len(all_photos) :
          SameInstant(all_photos[i].date, all_photos[j].date)
              => (DateFiltered(all_photos[i], start_datetime, end_datetime)
                     <=> DateFiltered(all_photos[j], start_datetime, end_datetime))
    /\ (pc = "stats_return" /\ "date_range" \in DOMAIN stats) =>
          \A date \in CountedDates :
              /\ IsoInstant(stats.date_range.earliest) <= IsoInstant(date)
              /\ IsoInstant(date) <= IsoInstant(stats.date_range.latest)

-----------------------------------------------------------------------------
(* Properties of get_statistics *)

\* The positions of the records of the input whose coordinates are present,
\* in range and not (0, 0).
CountedPositions == {k \in 1..Len(locations) : ValidRecord(locations[k])}

\* The counts are those of the records with valid coordinates.
StatsCountsValidRecords ==
    pc = "stats_return" =>
        /\ stats.total = Cardinality(CountedPositions)
        /\ stats.total = stats.photos + stats.videos
        /\ stats.videos = Cardinality({k \in CountedPositions : locations[k].is_video})
        /\ stats.favorites <= stats.total
        /\ stats.with_description <= stats.total
        /\ CountedPositions = {} =>
              /\ stats.total = 0 /\ stats.photos = 0 /\ stats.videos = 0
              /\ stats.favorites = 0 /\ stats.with_description = 0
              /\ "date_range" \notin DOMAIN stats

\* A reported date range is made of timestamps of counted records, the
\* earliest no later than the latest.
StatsDateRangeOrdered ==
    (pc = "stats_return" /\ "date_range" \in DOMAIN stats) =>
        LET dates == {locations[k].date : k \in CountedPositions} \ {EmptyString} IN
        /\ stats.date_range.earliest \in dates
        /\ stats.date_range.latest \in dates
        /\ IsoInstant(stats.date_range.earliest) <= IsoInstant(stats.date_range.latest)

\* C14: get_statistics counts the records with valid coordinates and only
\* those: total is their number and is photos + videos, favorites and
\* with_description are at most total; without such a record all counts are 0
\* and no date range is reported; a reported date range is made of timestamps
\* of counted records with earliest <= latest.
SummarizeCountsValidRecords == StatsCountsValidRecords /\ StatsDateRangeOrdered

=============================================================================
